---- MODULE Spec2Model ----
(***************************************************************************)
(* Image-classification backends of cloud-deployment-react-apps.           *)
(*                                                                         *)
(* Three FastAPI backends share one pipeline (validate, read, decode,      *)
(* canonicalize, preprocess, forward pass, format):                        *)
(*   "VercelRender"  AIT-204-React-Vercel-Render/backend/main.py, model.py *)
(*   "Vercel"        AIT-204-React-Vercel/backend/app/main.py, model.py,   *)
(*                   utils.py                                              *)
(*   "Render"        AIT-204-React-Render/backend/app.py, model.py         *)
(* A behaviour is one server process of one variant: start-up (the model   *)
(* load succeeds or fails), then any sequence of requests.  Each request   *)
(* handler is one action; what it did is recorded in `steps` and `handed`. *)
(* Text (content types, filenames) is a sequence of one-character strings. *)
(* Probabilities are fixed-point integers in units of 0.000001.            *)
(***************************************************************************)
EXTENDS Integers, Sequences, FiniteSets, TLC

VARIABLES
    variant,     \* which backend this process runs
    phase,       \* "boot" before start-up has run, "serving" after
    classifier,  \* "None", "Unbound" (name never assigned) or "Loaded"
    request,     \* the last request received
    response,    \* the response sent to it
    steps,       \* <<item, op>>: pipeline operations the handler performed
    handed,      \* <<item, channels>>: images handed to the model's predict
    todos_db,    \* the todo list of the Azure backend
    next_id,     \* the id its next todo gets
    issued,      \* history: every id create_todo has given out
    tasks,       \* the requests in flight on the event loop, each at a position
    running      \* the task whose code the event loop thread runs, 0 for none

storeVars == <<todos_db, next_id, issued>>
loopVars == <<tasks, running>>

vars == <<variant, phase, classifier, request, response, steps, handed,
          storeVars, loopVars>>

\* routes.py as imported: todos_db = [], next_id = 1
StoreInit ==
    /\ todos_db = <<>>
    /\ next_id = 1
    /\ issued = {}

\* an event loop with nothing scheduled
LoopInit ==
    /\ tasks = <<>>
    /\ running = 0

Variants == {"VercelRender", "Vercel", "Render"}

----------------------------------------------------------------------------
(* Bounds of the input space.                                              *)

\* longest batch submitted (must exceed the batch limit)
MaxFiles == 11
\* batches up to this length are enumerated over every choice of uploads
MaxVaried == 2
\* classes the network scores (ImageNet has 1000; must exceed the top-k of 5)
NumClasses == 7
\* longest class name given to the label cleanup
MaxLabelLen == 4
\* prediction lists up to this length are enumerated over every confidence
MaxPreds == 2

----------------------------------------------------------------------------
(* Text helpers: Python str operations on character sequences.             *)

\* Python None, for an optional str
None == <<"<None>">>

\* bool(s) of an optional str: None and "" are falsy
Truthy(s) == s # None /\ s # <<>>

\* str.startswith
startswith(s, prefix) ==
    /\ Len(s) >= Len(prefix)
    /\ SubSeq(s, 1, Len(prefix)) = prefix

LowerChar(c) ==
    CASE c = "J" -> "j"
      [] c = "P" -> "p"
      [] c = "G" -> "g"
      [] c = "N" -> "n"
      [] c = "A" -> "a"
      [] c = "B" -> "b"
      [] OTHER -> c

\* str.lower
lower(s) == [i \in 1..Len(s) |-> LowerChar(s[i])]

\* the elements of a list
Range(q) == {q[k] : k \in 1..Len(q)}

\* str.rfind for a single character, 0-based, -1 when absent
rfind(s, c) ==
    LET hits == {i \in 1..Len(s) : s[i] = c}
    IN  IF hits = {} THEN -1
        ELSE (CHOOSE i \in hits : \A j \in hits : j <= i) - 1

----------------------------------------------------------------------------
(* Request validation: app/utils.py of the Vercel backend.                 *)

ALLOWED_EXTENSIONS ==
    { <<".", "j", "p", "g">>, <<".", "j", "p", "e", "g">>, <<".", "p", "n", "g">>,
      <<".", "g", "i", "f">>, <<".", "b", "m", "p">>, <<".", "w", "e", "b", "p">> }

\* os.path.splitext(p)[1] on POSIX: the text from the last dot of the last
\* path component, unless that component has only dots before it
splitext_ext(p) ==
    LET sepIndex == rfind(p, "/")
        dotIndex == rfind(p, ".")
        nonDot == \E k \in (sepIndex + 1)..(dotIndex - 1) : p[k + 1] # "."
    IN  IF dotIndex > sepIndex /\ nonDot
        THEN SubSeq(p, dotIndex + 1, Len(p))
        ELSE <<>>

\* validate_image that compares the extension without lower-casing it
validate_image_case_sensitive(filename) ==
    IF ~Truthy(filename) THEN [exc |-> "ValueError", msg |-> "No filename provided"]
    ELSE LET file_ext == splitext_ext(filename)
         IN  IF file_ext = <<>>
             THEN [exc |-> "ValueError", msg |-> "File has no extension"]
             ELSE IF file_ext \notin ALLOWED_EXTENSIONS
             THEN [exc |-> "ValueError", msg |-> "File type is not allowed"]
             ELSE [exc |-> "", msg |-> ""]

\* validate_image: returns True (exc = "") or raises ValueError
validate_image(filename) ==
    IF ~Truthy(filename) THEN [exc |-> "ValueError", msg |-> "No filename provided"]
    ELSE LET file_ext == lower(splitext_ext(filename))
         IN  IF file_ext = <<>>
             THEN [exc |-> "ValueError", msg |-> "File has no extension"]
             ELSE IF file_ext \notin ALLOWED_EXTENSIONS
             THEN [exc |-> "ValueError", msg |-> "File type is not allowed"]
             ELSE [exc |-> "", msg |-> ""]

\* allowed_file that compares the extension without lower-casing it
allowed_file_case_sensitive(filename) ==
    IF ~Truthy(filename) THEN FALSE
    ELSE splitext_ext(filename) \in ALLOWED_EXTENSIONS

\* allowed_file: the boolean check, no exception
allowed_file(filename) ==
    IF ~Truthy(filename) THEN FALSE
    ELSE LET file_ext == lower(splitext_ext(filename))
         IN  file_ext \in ALLOWED_EXTENSIONS

----------------------------------------------------------------------------
(* Image decoding: PIL as the handlers use it.  Image.open parses only the *)
(* header; pixel data is decoded by the first operation that needs it      *)
(* (convert, resize, np.array), which raises on truncated data.            *)

Modes == {"RGB", "RGBA", "L", "P"}

\* bands of a PIL mode, the last axis of img_to_array / np.array
Channels(mode) ==
    CASE mode = "RGB" -> 3
      [] mode = "RGBA" -> 4
      [] mode = "L" -> 1
      [] mode = "P" -> 1

\* Image.open(io.BytesIO(contents))
Image_open(payload) ==
    IF payload.kind = "garbage"
    THEN [exc |-> "UnidentifiedImageError", img |-> [mode |-> "", pixels |-> ""]]
    ELSE [exc |-> "",
          img |-> [mode |-> payload.mode,
                   pixels |-> IF payload.kind = "truncated" THEN "broken" ELSE "ok"]]

\* image.convert('RGB')
Image_convert_RGB(img) ==
    IF img.pixels = "broken"
    THEN [exc |-> "OSError", img |-> img]
    ELSE [exc |-> "", img |-> [mode |-> "RGB", pixels |-> "ok"]]

\* outcome of a block of handler code: the exception it raised ("" for none),
\* the status of a raised HTTPException, str(e) of the exception, the value
\* returned, the operations performed and the channel counts of the images
\* handed to the model.  str(e) of an exception the libraries raise is a
\* fixed text, written as the exception's name.
Raise(e, ops, ch) ==
    [exc |-> e, http |-> 0, text |-> e, value |-> <<>>, ops |-> ops, handed |-> ch]
RaiseHTTP(code, ops, ch) ==
    [exc |-> "HTTPException", http |-> code, text |-> "", value |-> <<>>,
     ops |-> ops, handed |-> ch]
Return(ops, ch) ==
    [exc |-> "", http |-> 0, text |-> "", value |-> <<>>, ops |-> ops, handed |-> ch]

\* an exception whose str(e) is `text`
RaiseText(e, text, ops, ch) == [Raise(e, ops, ch) EXCEPT !.text = text]

\* a block that returns `value`
ReturnValue(value, ops, ch) == [Return(ops, ch) EXCEPT !.value = value]

IMAGE_PREFIX == <<"i", "m", "a", "g", "e", "/">>

----------------------------------------------------------------------------
(* The network's output and its selection: keras decode_predictions and    *)
(* torch.topk.  A score vector maps each class index 0..NumClasses-1 to a  *)
(* probability.                                                            *)

\* top_k, the number of predictions every handler asks for
TopK == 5

Classes == 0..(NumClasses - 1)

\* class names as the label tables spell them, with underscores
LabelPool ==
    << <<"a", "b">>, <<"a", "_", "b">>, <<"A", "_", "b", "a">>,
       <<"b", "3", "a">>, <<"b", "_", "_", "a">> >>

ClassName(i) == LabelPool[(i % Len(LabelPool)) + 1]

\* the indices of the `k` largest scores, largest first.  Neither numpy's
\* argsort (introsort) nor torch.topk fixes the order of equal scores:
\* `ties` is the order the sort at hand leaves them in, by ascending ("asc")
\* or by descending ("desc") class index.
TopIndices(scores, k, ties) ==
    LET Before(i, j) ==
            \/ scores[i] > scores[j]
            \/ /\ scores[i] = scores[j]
               /\ IF ties = "asc" THEN i < j ELSE i > j
        pos(i) == Cardinality({j \in DOMAIN scores : Before(j, i)}) + 1
        n == IF k < Cardinality(DOMAIN scores) THEN k ELSE Cardinality(DOMAIN scores)
    IN  [r \in 1..n |-> CHOOSE i \in DOMAIN scores : pos(i) = r]

\* decode_predictions(predictions, top=top)[0]: (class_id, class_name,
\* probability) of the top classes; the WordNet id is written as the index
decode_predictions(scores, top, ties) ==
    LET idx == TopIndices(scores, top, ties)
    IN  [r \in 1..Len(idx) |->
            [class_id |-> idx[r], class_name |-> ClassName(idx[r]),
             confidence |-> scores[idx[r]]]]

----------------------------------------------------------------------------
(* Formatting: app/utils.py of the Vercel backend.                         *)

\* x / unit rounded to the nearest integer, halves to the even neighbour, as
\* round() and the format specification .2f round
RoundHalfEven(x, unit) ==
    LET q == x \div unit
        r == x % unit
    IN  IF 2 * r < unit THEN q
        ELSE IF 2 * r > unit THEN q + 1
        ELSE IF q % 2 = 0 THEN q ELSE q + 1

\* round(x, 4) of a probability
round4(x) == 100 * RoundHalfEven(x, 100)

\* a percentage cut after two decimals instead of rounded
format_percent_truncate(confidence) == (confidence * 100) \div 10000

\* f"{confidence * 100:.2f}%": the percentage, in units of 0.01 %
format_percent(confidence) == RoundHalfEven(confidence * 100, 10000)

Lowers == {"a", "b"}
Uppers == {"A", "B"}
IsCased(c) == c \in Lowers \cup Uppers

UpperChar(c) ==
    CASE c = "a" -> "A"
      [] c = "b" -> "B"
      [] OTHER -> c

\* str.replace for single characters
str_replace(s, old, new) == [i \in 1..Len(s) |-> IF s[i] = old THEN new ELSE s[i]]

\* str.title: a cased character is upper-cased when the character before it
\* is not cased, lower-cased otherwise
str_title(s) ==
    [i \in 1..Len(s) |->
        IF ~IsCased(s[i]) THEN s[i]
        ELSE IF i > 1 /\ IsCased(s[i - 1]) THEN LowerChar(s[i])
        ELSE UpperChar(s[i])]

\* a cleanup that replaces the first underscore only
clean_name_first_underscore(class_name) ==
    LET hits == {i \in 1..Len(class_name) : class_name[i] = "_"}
        first == IF hits = {} THEN 0 ELSE CHOOSE i \in hits : \A j \in hits : i <= j
    IN  str_title([i \in 1..Len(class_name) |->
                      IF i = first THEN " " ELSE class_name[i]])

\* format_predictions' label cleanup: underscores to spaces, then title case
clean_name(class_name) == str_title(str_replace(class_name, "_", " "))

\* a format_predictions that numbers the ranks from 0
format_predictions_rank_from_zero(predictions, top_k) ==
    LET n == IF top_k < Len(predictions) THEN top_k ELSE Len(predictions)
    IN  [r \in 1..n |->
            [class |-> clean_name(predictions[r].class_name),
             confidence |-> round4(predictions[r].confidence),
             confidence_percent |-> format_percent(predictions[r].confidence),
             class_id |-> predictions[r].class_id,
             rank |-> r - 1]]

\* format_predictions: the first top_k predictions, in the order given
format_predictions(predictions, top_k) ==
    LET n == IF top_k < Len(predictions) THEN top_k ELSE Len(predictions)
    IN  [r \in 1..n |->
            [class |-> clean_name(predictions[r].class_name),
             confidence |-> round4(predictions[r].confidence),
             confidence_percent |-> format_percent(predictions[r].confidence),
             class_id |-> predictions[r].class_id,
             rank |-> r]]

RECURSIVE SumSeq(_)
SumSeq(q) == IF q = <<>> THEN 0 ELSE Head(q) + SumSeq(Tail(q))

\* a calculate_confidence_distribution whose "high" starts above 0.8
calculate_confidence_distribution_strict(predictions) ==
    IF predictions = <<>> THEN [error |-> "No predictions provided"]
    ELSE LET confidences == [i \in 1..Len(predictions) |-> predictions[i].confidence]
             top_confidence ==
                 CHOOSE m \in Range(confidences) : \A c \in Range(confidences) : c <= m
             lowest_confidence ==
                 CHOOSE m \in Range(confidences) : \A c \in Range(confidences) : m <= c
             confidence_spread == top_confidence - lowest_confidence
             certainty == IF top_confidence > 800000 THEN "high"
                          ELSE IF top_confidence >= 500000 THEN "medium"
                          ELSE "low"
         IN  [top_confidence |-> round4(top_confidence),
              lowest_confidence |-> round4(lowest_confidence),
              confidence_spread |-> round4(confidence_spread),
              certainty_level |-> certainty,
              average_confidence |->
                  100 * RoundHalfEven(SumSeq(confidences), 100 * Len(confidences))]

\* calculate_confidence_distribution: statistics of a list of formatted
\* predictions, or an error value for an empty list
calculate_confidence_distribution(predictions) ==
    IF predictions = <<>> THEN [error |-> "No predictions provided"]
    ELSE LET confidences == [i \in 1..Len(predictions) |-> predictions[i].confidence]
             top_confidence ==
                 CHOOSE m \in Range(confidences) : \A c \in Range(confidences) : c <= m
             lowest_confidence ==
                 CHOOSE m \in Range(confidences) : \A c \in Range(confidences) : m <= c
             confidence_spread == top_confidence - lowest_confidence
             certainty == IF top_confidence >= 800000 THEN "high"
                          ELSE IF top_confidence >= 500000 THEN "medium"
                          ELSE "low"
         IN  [top_confidence |-> round4(top_confidence),
              lowest_confidence |-> round4(lowest_confidence),
              confidence_spread |-> round4(confidence_spread),
              certainty_level |-> certainty,
              average_confidence |->
                  100 * RoundHalfEven(SumSeq(confidences), 100 * Len(confidences))]

----------------------------------------------------------------------------
(* Vercel-Render backend: model.py (ModelHandler) and main.py.             *)

\* predict_batch's size limit
MaxBatch == 10

\* ModelHandler.preprocess_image: resize (decodes the pixel data), to array,
\* add the batch axis, MobileNetV2 preprocess_input
ModelHandler_preprocess_image(img, file) ==
    IF img.pixels = "broken"
    THEN [exc |-> "OSError", text |-> "OSError", channels |-> 0]
    ELSE IF file.fault = "preprocess"
    THEN [exc |-> "InternalError", text |-> file.errtext, channels |-> 0]
    ELSE [exc |-> "", text |-> "", channels |-> Channels(img.mode)]

\* the loop of ModelHandler.predict over the decoded predictions
ModelHandler_results(decoded_predictions) ==
    [r \in 1..Len(decoded_predictions) |->
        [class |-> decoded_predictions[r].class_name,
         confidence |-> decoded_predictions[r].confidence,
         class_id |-> decoded_predictions[r].class_id]]

\* ModelHandler.predict: the model check, preprocessing, model.predict (which
\* rejects a tensor whose shape is not (1, 224, 224, 3)), decode_predictions;
\* every exception is logged and re-raised
ModelHandler_predict(model, img, file) ==
    IF model = "None" THEN Raise("RuntimeError", <<>>, <<>>)
    ELSE LET p == ModelHandler_preprocess_image(img, file)
         IN  IF p.exc # "" THEN RaiseText(p.exc, p.text, <<"preprocess">>, <<>>)
             ELSE IF p.channels # 3
             THEN Raise("ValueError", <<"preprocess", "forward">>, <<>>)
             ELSE IF file.fault = "inference"
             THEN RaiseText("InternalError", file.errtext,
                            <<"preprocess", "forward">>, <<>>)
             ELSE ReturnValue(
                    ModelHandler_results(decode_predictions(file.scores, TopK, file.ties)),
                    <<"preprocess", "forward", "decode_predictions">>, <<>>)

\* the statements of predict_image's try block and of predict_batch's loop
\* body after the content-type check: read, Image.open, convert RGBA only,
\* model_handler.predict
VR_read_and_predict(model, file) ==
    IF file.fault = "read" THEN RaiseText("OSError", file.errtext, <<"read">>, <<>>)
    ELSE LET o == Image_open(file.payload)
         IN  IF o.exc # "" THEN Raise(o.exc, <<"read", "open">>, <<>>)
             ELSE LET c == IF o.img.mode = "RGBA"
                           THEN Image_convert_RGB(o.img)
                           ELSE [exc |-> "", img |-> o.img]
                      pre == IF o.img.mode = "RGBA"
                             THEN <<"read", "open", "convert">>
                             ELSE <<"read", "open">>
                  IN  IF c.exc # "" THEN Raise(c.exc, pre, <<>>)
                      ELSE LET m == ModelHandler_predict(model, c.img, file)
                           IN  [m EXCEPT !.ops = pre \o <<"predict">> \o m.ops,
                                         !.handed = <<Channels(c.img.mode)>>]

\* the try block of predict_image
predict_image_try(model, file) ==
    IF file.content_type = None THEN Raise("AttributeError", <<>>, <<>>)
    ELSE IF ~startswith(file.content_type, IMAGE_PREFIX) THEN RaiseHTTP(400, <<>>, <<>>)
    ELSE VR_read_and_predict(model, file)

\* a predict_image that answers 200 with no predictions where it should
\* answer 500
predict_image_swallow(model, file) ==
    LET t == predict_image_try(model, file)
        status == IF t.exc = "" THEN 200
                  ELSE IF t.exc = "HTTPException" THEN t.http
                  ELSE 200
    IN  [response |-> [status |-> status,
                       success |-> (status = 200),
                       filename |-> file.filename,
                       detail |-> t.exc,
                       exc_text |-> t.text,
                       has_predictions |-> (t.exc = ""),
                       predictions |-> t.value],
         ops |-> t.ops, handed |-> t.handed]

\* predict_image: HTTPException is re-raised, any other exception becomes 500
predict_image(model, file) ==
    LET t == predict_image_try(model, file)
        status == IF t.exc = "" THEN 200
                  ELSE IF t.exc = "HTTPException" THEN t.http
                  ELSE 500
    IN  [response |-> [status |-> status,
                       success |-> (t.exc = ""),
                       filename |-> file.filename,
                       detail |-> t.exc,
                       exc_text |-> t.text,
                       has_predictions |-> (t.exc = ""),
                       predictions |-> t.value],
         ops |-> t.ops, handed |-> t.handed]

\* a batch_iteration that reports the upload's content type in place of its
\* filename
batch_iteration_wrong_name(model, file) ==
    LET t == IF file.content_type = None THEN Raise("AttributeError", <<>>, <<>>)
             ELSE IF ~startswith(file.content_type, IMAGE_PREFIX)
             THEN Raise("NotAnImage", <<>>, <<>>)
             ELSE VR_read_and_predict(model, file)
    IN  [result |-> [filename |-> file.content_type,
                     success |-> (t.exc = ""),
                     error |-> IF t.exc = "NotAnImage" THEN "File must be an image"
                               ELSE t.text,
                     has_predictions |-> (t.exc = ""),
                     predictions |-> t.value],
         ops |-> t.ops, handed |-> t.handed]

\* one iteration of predict_batch's loop: the result appended for `file`
batch_iteration(model, file) ==
    LET t == IF file.content_type = None THEN Raise("AttributeError", <<>>, <<>>)
             ELSE IF ~startswith(file.content_type, IMAGE_PREFIX)
             THEN Raise("NotAnImage", <<>>, <<>>)
             ELSE VR_read_and_predict(model, file)
    IN  [result |-> [filename |-> file.filename,
                     success |-> (t.exc = ""),
                     error |-> IF t.exc = "NotAnImage" THEN "File must be an image"
                               ELSE t.text,
                     has_predictions |-> (t.exc = ""),
                     predictions |-> t.value],
         ops |-> t.ops, handed |-> t.handed]

\* the events of item i, tagged with its position
Tag(i, xs) == [k \in 1..Len(xs) |-> <<i, xs[k]>>]

\* a batch loop that stops at the first failed item
RECURSIVE batch_loop_abort(_, _, _, _)
batch_loop_abort(model, files, i, acc) ==
    IF i > Len(files) THEN acc
    ELSE LET it == batch_iteration(model, files[i])
             next == [results |-> Append(acc.results, it.result),
                      steps |-> acc.steps \o Tag(i, it.ops),
                      handed |-> acc.handed \o Tag(i, it.handed)]
         IN  IF it.result.success
             THEN batch_loop_abort(model, files, i + 1, next)
             ELSE next

\* predict_batch's loop over files[i..], accumulating results and events
RECURSIVE batch_loop(_, _, _, _)
batch_loop(model, files, i, acc) ==
    IF i > Len(files) THEN acc
    ELSE LET it == batch_iteration(model, files[i])
         IN  batch_loop(model, files, i + 1,
                        [results |-> Append(acc.results, it.result),
                         steps |-> acc.steps \o Tag(i, it.ops),
                         handed |-> acc.handed \o Tag(i, it.handed)])

\* a predict_batch that checks the size only after the loop has run
predict_batch_check_last(model, files) ==
    LET r == batch_loop(model, files, 1,
                        [results |-> <<>>, steps |-> <<>>, handed |-> <<>>])
    IN  IF Len(files) > MaxBatch
        THEN [response |-> [status |-> 400, success |-> FALSE,
                            total_images |-> 0, results |-> <<>>],
              steps |-> r.steps, handed |-> r.handed]
        ELSE [response |-> [status |-> 200, success |-> TRUE,
                            total_images |-> Len(files), results |-> r.results],
              steps |-> r.steps, handed |-> r.handed]

\* predict_batch: the size check, then the loop, then the aggregate response
predict_batch(model, files) ==
    IF Len(files) > MaxBatch
    THEN [response |-> [status |-> 400, success |-> FALSE,
                        total_images |-> 0, results |-> <<>>],
          steps |-> <<>>, handed |-> <<>>]
    ELSE LET r == batch_loop(model, files, 1,
                             [results |-> <<>>, steps |-> <<>>, handed |-> <<>>])
         IN  [response |-> [status |-> 200, success |-> TRUE,
                            total_images |-> Len(files), results |-> r.results],
              steps |-> r.steps, handed |-> r.handed]

----------------------------------------------------------------------------
(* Vercel backend: app/model.py (ImageClassifier) and app/main.py.         *)

\* the body of a single-prediction response: `detail` is the message,
\* `exc_text` the str(e) interpolated into it ("" when there is none)
SingleResponse(status, file, detail) ==
    [status |-> status,
     success |-> (status = 200),
     filename |-> file.filename,
     detail |-> detail,
     exc_text |-> "",
     has_predictions |-> (status = 200),
     predictions |-> <<>>]

\* ImageClassifier.preprocess_image: any failure is re-raised as ValueError
\* with the failure's text in its message
ImageClassifier_preprocess_image(img, file) ==
    IF file.fault = "preprocess"
    THEN [exc |-> "ValueError", text |-> file.errtext, channels |-> 0]
    ELSE [exc |-> "", text |-> "", channels |-> Channels(img.mode)]

\* an ImageClassifier.predict that swallows a failed forward pass
ImageClassifier_predict_swallow(img, file) ==
    LET p == ImageClassifier_preprocess_image(img, file)
    IN  IF p.exc # "" THEN RaiseText("ValueError", p.text, <<"preprocess">>, <<>>)
        ELSE ReturnValue(decode_predictions(file.scores, TopK, file.ties),
                         <<"preprocess", "forward", "decode_predictions">>, <<>>)

\* ImageClassifier.predict: ValueError is re-raised, any other exception of
\* the forward pass is re-raised as RuntimeError with its text in the message
ImageClassifier_predict(img, file) ==
    LET p == ImageClassifier_preprocess_image(img, file)
    IN  IF p.exc # "" THEN RaiseText("ValueError", p.text, <<"preprocess">>, <<>>)
        ELSE IF p.channels # 3 THEN Raise("ValueError", <<"preprocess", "forward">>, <<>>)
        ELSE IF file.fault = "inference"
        THEN RaiseText("RuntimeError", file.errtext, <<"preprocess", "forward">>, <<>>)
        ELSE ReturnValue(decode_predictions(file.scores, TopK, file.ties),
                         <<"preprocess", "forward", "decode_predictions">>, <<>>)

\* a Step 2 that reads the upload before it checks it
Vercel_validate_after_read(file) ==
    IF file.content_type = None THEN Raise("AttributeError", <<"read">>, <<>>)
    ELSE IF ~startswith(file.content_type, IMAGE_PREFIX) THEN RaiseHTTP(400, <<"read">>, <<>>)
    ELSE RaiseText(validate_image(file.filename).exc, validate_image(file.filename).msg,
                   <<"read", "validate_image">>, <<>>)

\* Step 2 of predict: the content-type check and validate_image
Vercel_validate(file) ==
    IF file.content_type = None THEN Raise("AttributeError", <<>>, <<>>)
    ELSE IF ~startswith(file.content_type, IMAGE_PREFIX) THEN RaiseHTTP(400, <<>>, <<>>)
    ELSE RaiseText(validate_image(file.filename).exc, validate_image(file.filename).msg,
                   <<"validate_image">>, <<>>)

\* Step 3 of predict: read, Image.open, convert every mode but RGB
Vercel_decode(file) ==
    IF file.fault = "read"
    THEN [exc |-> "OSError", text |-> file.errtext,
          img |-> [mode |-> "", pixels |-> ""], ops |-> <<"read">>]
    ELSE LET o == Image_open(file.payload)
         IN  IF o.exc # ""
             THEN [exc |-> o.exc, text |-> o.exc, img |-> o.img, ops |-> <<"read", "open">>]
             ELSE IF o.img.mode # "RGB"
             THEN LET c == Image_convert_RGB(o.img)
                  IN  [exc |-> c.exc, text |-> c.exc, img |-> c.img,
                       ops |-> <<"read", "open", "convert">>]
             ELSE [exc |-> "", text |-> "", img |-> o.img, ops |-> <<"read", "open">>]

\* Step 4 of predict: np.array (decodes the pixel data), classifier.predict,
\* format_predictions
Vercel_run(img, file) ==
    IF img.pixels = "broken" THEN Raise("OSError", <<"np.array">>, <<>>)
    ELSE LET m == ImageClassifier_predict(img, file)
         IN  IF m.exc # ""
             THEN [m EXCEPT !.ops = <<"np.array", "predict">> \o m.ops,
                            !.handed = <<Channels(img.mode)>>]
             ELSE ReturnValue(format_predictions(m.value, TopK),
                              <<"np.array", "predict">> \o m.ops \o <<"format_predictions">>,
                              <<Channels(img.mode)>>)

\* app.debug: FastAPI() is constructed without debug, which defaults to False
app_debug == FALSE

\* a handler of uncaught exceptions that sends no response
global_exception_handler_silent(file, text) == SingleResponse(0, file, "")

\* global_exception_handler: 500, with str(exc) as detail in debug mode only
global_exception_handler(file, text) ==
    [SingleResponse(500, file,
                    IF app_debug THEN "str(exc)" ELSE "An unexpected error occurred")
        EXCEPT !.exc_text = IF app_debug THEN text ELSE ""]

\* predict of app/main.py: steps 1 to 5; an exception that no except clause
\* of the handler catches reaches global_exception_handler
Vercel_predict(cls, file) ==
    IF cls = "None"
    THEN [response |-> SingleResponse(503, file, "Model not available"),
          ops |-> <<>>, handed |-> <<>>]
    ELSE LET v == Vercel_validate(file)
         IN  IF v.exc = "HTTPException"
             THEN [response |-> SingleResponse(v.http, file, "Invalid file type"),
                   ops |-> v.ops, handed |-> <<>>]
             ELSE IF v.exc = "ValueError"
             THEN [response |-> [SingleResponse(400, file, v.text)
                                    EXCEPT !.exc_text = v.text],
                   ops |-> v.ops, handed |-> <<>>]
             ELSE IF v.exc # ""
             THEN [response |-> global_exception_handler(file, v.text),
                   ops |-> v.ops, handed |-> <<>>]
             ELSE LET d == Vercel_decode(file)
                  IN  IF d.exc # ""
                      THEN [response |-> [SingleResponse(400, file, "Could not read image file")
                                             EXCEPT !.exc_text = d.text],
                            ops |-> v.ops \o d.ops, handed |-> <<>>]
                      ELSE LET r == Vercel_run(d.img, file)
                           IN  [response |->
                                    IF r.exc = ""
                                    THEN [SingleResponse(200, file, "")
                                             EXCEPT !.predictions = r.value]
                                    ELSE [SingleResponse(500, file, "Model prediction failed")
                                             EXCEPT !.exc_text = r.text],
                                ops |-> v.ops \o d.ops \o r.ops,
                                handed |-> r.handed]

----------------------------------------------------------------------------
(* Render backend: model.py (ImageClassifier, PyTorch) and app.py.         *)

\* torch.topk over the softmax probabilities and the loop that builds the
\* predictions: the label of each class index, the confidence rounded to 4
\* decimals
Render_results(probabilities, top_k, ties) ==
    LET top_indices == TopIndices(probabilities, top_k, ties)
    IN  [i \in 1..top_k |->
            [label |-> ClassName(top_indices[i]),
             confidence |-> round4(probabilities[top_indices[i]]),
             class_id |-> top_indices[i]]]

\* ImageClassifier.predict of the Render backend: the transforms (Resize
\* decodes the pixel data), the forward pass, softmax and top-k; no except
Render_ImageClassifier_predict(img, file) ==
    IF img.pixels = "broken" THEN Raise("OSError", <<"preprocess">>, <<>>)
    ELSE IF file.fault = "preprocess"
    THEN RaiseText("InternalError", file.errtext, <<"preprocess">>, <<>>)
    ELSE IF Channels(img.mode) # 3 THEN Raise("RuntimeError", <<"preprocess">>, <<>>)
    ELSE IF file.fault = "inference"
    THEN RaiseText("InternalError", file.errtext, <<"preprocess", "forward">>, <<>>)
    ELSE ReturnValue(Render_results(file.scores, TopK, file.ties),
                     <<"preprocess", "forward", "topk">>, <<>>)

\* the try block of app.py's predict
Render_predict_try(cls, file) ==
    IF file.content_type = None THEN Raise("AttributeError", <<>>, <<>>)
    ELSE IF ~startswith(file.content_type, IMAGE_PREFIX) THEN RaiseHTTP(400, <<>>, <<>>)
    ELSE IF file.fault = "read" THEN RaiseText("OSError", file.errtext, <<"read">>, <<>>)
    ELSE LET o == Image_open(file.payload)
         IN  IF o.exc # "" THEN Raise(o.exc, <<"read", "open">>, <<>>)
             ELSE LET c == IF o.img.mode # "RGB"
                           THEN Image_convert_RGB(o.img)
                           ELSE [exc |-> "", img |-> o.img]
                      pre == IF o.img.mode # "RGB"
                             THEN <<"read", "open", "convert">>
                             ELSE <<"read", "open">>
                  IN  IF c.exc # "" THEN Raise(c.exc, pre, <<>>)
                      ELSE IF cls = "Unbound" THEN Raise("NameError", pre, <<>>)
                      ELSE LET m == Render_ImageClassifier_predict(c.img, file)
                           IN  [m EXCEPT !.ops = pre \o <<"predict">> \o m.ops,
                                         !.handed = <<Channels(c.img.mode)>>]

\* predict of app.py: HTTPException is re-raised, any other exception is 500
Render_predict(cls, file) ==
    LET t == Render_predict_try(cls, file)
        status == IF t.exc = "" THEN 200
                  ELSE IF t.exc = "HTTPException" THEN t.http
                  ELSE 500
    IN  [response |-> [SingleResponse(status, file, t.exc)
                          EXCEPT !.exc_text = t.text, !.predictions = t.value],
         ops |-> t.ops \o <<"close">>, handed |-> t.handed]

----------------------------------------------------------------------------
(* GET /health and the model-information endpoints.                        *)

\* what the server sends when a handler's exception reaches no handler of
\* the application: 500 Internal Server Error
ServerError == [status |-> 500, detail |-> "Internal Server Error"]

\* health_check of the Vercel-Render main.py
VR_health_check(model) ==
    [status |-> 200, health |-> "healthy", model_loaded |-> (model # "None")]

\* health_check of the Vercel app/main.py
Vercel_health_check(cls) ==
    [status |-> 200,
     health |-> IF cls # "None" THEN "healthy" ELSE "degraded",
     model_loaded |-> (cls # "None")]

\* health_check of the Render app.py: evaluating the name classifier raises
\* NameError when the module-level load never bound it
Render_health_check(cls) ==
    IF cls = "Unbound" THEN ServerError
    ELSE [status |-> 200, health |-> "healthy", model_loaded |-> (cls # "None")]

\* model_info of the Vercel-Render main.py: ModelHandler.get_model_info
VR_model_info(model) == [status |-> 200, loaded |-> (model # "None")]

\* model_info of the Render app.py: a fixed description
Render_model_info == [status |-> 200, num_classes |-> 1000]

----------------------------------------------------------------------------
(* Model loading at process start.                                         *)

\* startup_event of the Vercel-Render main.py: load_model() sets
\* model_handler.model, or raises and leaves it None
VR_startup_event(ok) == IF ok THEN "Loaded" ELSE "None"

\* module level of the Vercel app/main.py: classifier = ImageClassifier(),
\* or classifier = None when the constructor raises
Vercel_load(ok) == IF ok THEN "Loaded" ELSE "None"

\* module level of the Render app.py: classifier = ImageClassifier(); when
\* the constructor raises, the name classifier is never bound
Render_load(ok) == IF ok THEN "Loaded" ELSE "Unbound"

----------------------------------------------------------------------------
(* Request inputs.                                                         *)

CT_png == <<"i", "m", "a", "g", "e", "/", "p", "n", "g">>
CT_image == <<"i", "m", "a", "g", "e", "/">>
CT_bare == <<"i", "m", "a", "g", "e">>
CT_pdf == <<"a", "p", "p", "l", "i", "c", "a", "t", "i", "o", "n", "/", "p", "d", "f">>
CT_nested == <<"x", "/", "i", "m", "a", "g", "e", "/">>

ContentTypes == {None, <<>>, CT_png, CT_image, CT_bare, CT_pdf, CT_nested}

Dirs == { <<>>, <<"d", "/">>, <<"d", ".", "p", "n", "g", "/">> }
Stems == { <<>>, <<"a">>, <<".">>, <<".", "a">>, <<"a", ".", "b">> }
Exts ==
    { <<>>, <<".">>, <<".", "j", "p", "g">>, <<".", "J", "P", "G">>,
      <<".", "j", "p", "e", "g">>, <<".", "p", "n", "g">>, <<".", "P", "n", "G">>,
      <<".", "g", "i", "f">>, <<".", "b", "m", "p">>, <<".", "w", "e", "b", "p">>,
      <<".", "p", "d", "f">>, <<".", "j", "p">>, <<".", "p", "n", "g", "x">> }

Filenames == {None} \cup {d \o s \o e : d \in Dirs, s \in Stems, e \in Exts}

FewNames == {None, <<>>, <<"a", ".", "p", "n", "g">>, <<"a", ".", "p", "d", "f">>}

GoodPayload == [kind |-> "image", mode |-> "RGB"]
Payloads == {[kind |-> "garbage", mode |-> "RGB"]}
              \cup [kind : {"image", "truncated"}, mode : Modes]

\* failures the environment injects: the upload read, the preprocessing
\* computation, the forward pass
Faults == {"none", "read", "preprocess", "inference"}

\* the text of the exception an injected failure raises
ErrTexts == {"disk quota exceeded", "OOM at layer 7"}
DefaultText == "disk quota exceeded"

\* shapes of the probabilities of the classes below the top one: all zero,
\* below the fourth decimal and rising with the index, all equal, all
\* different, on the halves of the fourth decimal
Rest(t, i) ==
    CASE t = 1 -> 0
      [] t = 2 -> 10 * i + 20
      [] t = 3 -> 100000
      [] t = 4 -> 12345 * (i + 1)
      [] t = 5 -> 100 * i + 50

RestShapes == 1..5

RECURSIVE SumRest(_, _)
SumRest(t, n) == IF n < 0 THEN 0 ELSE Rest(t, n) + SumRest(t, n - 1)

\* the score vector with class b on top and the others shaped by t; the
\* probabilities sum to 1
Vec(b, t) ==
    [i \in Classes |->
        IF i = b THEN 1000000 - (SumRest(t, NumClasses - 1) - Rest(t, b))
        ELSE Rest(t, i)]

ScoreVectors == {Vec(b, t) : b \in Classes, t \in RestShapes}
DefaultScores == Vec(1, 4)
TieOrders == {"asc", "desc"}

\* an upload and what its processing meets: the declared content type, the
\* filename, the bytes, the injected failure and its text, the probabilities
\* the network computes for the picture and the order the top-k sort leaves
\* equal scores in
Uploads ==
    [content_type : ContentTypes, filename : FewNames, payload : Payloads, fault : Faults,
     errtext : {DefaultText}, scores : {DefaultScores}, ties : {"asc"}]
    \cup [content_type : {CT_png}, filename : Filenames, payload : {GoodPayload},
          fault : {"none"},
          errtext : {DefaultText}, scores : {DefaultScores}, ties : {"asc"}]
    \cup [content_type : {CT_png}, filename : {<<"a", ".", "p", "n", "g">>},
          payload : {GoodPayload}, fault : {"none"},
          errtext : {DefaultText}, scores : ScoreVectors, ties : TieOrders]
    \cup [content_type : {CT_png}, filename : {<<"a", ".", "p", "n", "g">>},
          payload : {GoodPayload}, fault : Faults \ {"none"},
          errtext : ErrTexts, scores : {DefaultScores}, ties : {"asc"}]

Upload(ct, c, payload, fault) ==
    [content_type |-> ct, filename |-> <<c, ".", "p", "n", "g">>,
     payload |-> payload, fault |-> fault,
     errtext |-> DefaultText, scores |-> Vec(0, 2), ties |-> "asc"]

\* the uploads batches are built from, with pairwise distinct filenames
BatchPool ==
    << Upload(CT_png, "a", GoodPayload, "none"),
       Upload(CT_pdf, "b", GoodPayload, "none"),
       Upload(None, "c", GoodPayload, "none"),
       Upload(CT_png, "d", [kind |-> "garbage", mode |-> "RGB"], "none"),
       Upload(CT_png, "e", [kind |-> "image", mode |-> "L"], "none"),
       Upload(CT_png, "f", [kind |-> "image", mode |-> "RGBA"], "inference"),
       [content_type |-> CT_png, filename |-> None, payload |-> GoodPayload,
        fault |-> "none", errtext |-> DefaultText, scores |-> DefaultScores,
        ties |-> "desc"],
       Upload(CT_png, "g", [kind |-> "truncated", mode |-> "RGBA"], "none"),
       Upload(CT_png, "h", GoodPayload, "read"),
       Upload(CT_png, "i", [kind |-> "image", mode |-> "RGBA"], "preprocess") >>

PoolSet == {BatchPool[k] : k \in 1..Len(BatchPool)}

\* every batch of 1..MaxVaried pool uploads, and the batches of 1..MaxFiles
\* uploads that walk the pool from any starting point
Batches ==
    UNION {[1..n -> PoolSet] : n \in 1..MaxVaried}
    \cup {[i \in 1..n |-> BatchPool[((k + i) % Len(BatchPool)) + 1]] :
            n \in 1..MaxFiles, k \in 0..(Len(BatchPool) - 1)}

----------------------------------------------------------------------------
(* The server process.                                                     *)

NoRequest == [kind |-> "none"]
NoResponse == [status |-> 0]

Init ==
    /\ variant \in Variants
    /\ phase = "boot"
    /\ classifier = IF variant = "VercelRender" THEN "None" ELSE "Unbound"
    /\ request = NoRequest
    /\ response = NoResponse
    /\ steps = <<>>
    /\ handed = <<>>
    /\ StoreInit
    /\ LoopInit

\* a load that can run again while the process serves
Startup_again(ok) ==
    /\ phase' = "serving"
    /\ classifier' = CASE variant = "VercelRender" -> VR_startup_event(ok)
                       [] variant = "Vercel" -> Vercel_load(ok)
                       [] variant = "Render" -> Render_load(ok)
    /\ UNCHANGED <<variant, request, response, steps, handed>>
    /\ UNCHANGED <<storeVars, loopVars>>

\* process start: the one place the model is loaded
Startup(ok) ==
    /\ phase = "boot"
    /\ phase' = "serving"
    /\ classifier' = CASE variant = "VercelRender" -> VR_startup_event(ok)
                       [] variant = "Vercel" -> Vercel_load(ok)
                       [] variant = "Render" -> Render_load(ok)
    /\ UNCHANGED <<variant, request, response, steps, handed>>
    /\ UNCHANGED <<storeVars, loopVars>>

\* the POST /predict handler of the running variant
HandlePredict(file) ==
    CASE variant = "VercelRender" -> predict_image(classifier, file)
      [] variant = "Vercel" -> Vercel_predict(classifier, file)
      [] variant = "Render" -> Render_predict(classifier, file)

\* POST /predict
Predict(file) ==
    /\ phase = "serving"
    /\ request = NoRequest
    /\ LET h == HandlePredict(file)
       IN  /\ request' = [kind |-> "predict", file |-> file]
           /\ response' = h.response
           /\ steps' = Tag(0, h.ops)
           /\ handed' = Tag(0, h.handed)
    /\ UNCHANGED <<variant, phase, classifier>>
    /\ UNCHANGED <<storeVars, loopVars>>

\* POST /predict/batch (Vercel-Render backend only)
PredictBatch(files) ==
    /\ phase = "serving"
    /\ request = NoRequest
    /\ variant = "VercelRender"
    /\ LET h == predict_batch(classifier, files)
       IN  /\ request' = [kind |-> "batch", files |-> files]
           /\ response' = h.response
           /\ steps' = h.steps
           /\ handed' = h.handed
    /\ UNCHANGED <<variant, phase, classifier>>
    /\ UNCHANGED <<storeVars, loopVars>>

\* the GET /health handler of the running variant
HandleHealth ==
    CASE variant = "VercelRender" -> VR_health_check(classifier)
      [] variant = "Vercel" -> Vercel_health_check(classifier)
      [] variant = "Render" -> Render_health_check(classifier)

\* GET /health
Health ==
    /\ phase = "serving"
    /\ request = NoRequest
    /\ request' = [kind |-> "health"]
    /\ response' = HandleHealth
    /\ UNCHANGED <<variant, phase, classifier, steps, handed>>
    /\ UNCHANGED <<storeVars, loopVars>>

\* GET /model/info (Vercel-Render) and GET /model-info (Render)
ModelInfo ==
    /\ phase = "serving"
    /\ request = NoRequest
    /\ variant \in {"VercelRender", "Render"}
    /\ request' = [kind |-> "model_info"]
    /\ response' = IF variant = "VercelRender" THEN VR_model_info(classifier)
                   ELSE Render_model_info
    /\ UNCHANGED <<variant, phase, classifier, steps, handed>>
    /\ UNCHANGED <<storeVars, loopVars>>

\* the response has been sent: the request-scoped values are dropped and the
\* process is ready for the next request
Finish ==
    /\ request # NoRequest
    /\ request' = NoRequest
    /\ response' = NoResponse
    /\ steps' = <<>>
    /\ handed' = <<>>
    /\ UNCHANGED <<variant, phase, classifier>>
    /\ UNCHANGED <<storeVars, loopVars>>

Next ==
    \/ \E ok \in BOOLEAN : Startup(ok)
    \/ \E file \in Uploads : Predict(file)
    \/ \E files \in Batches : PredictBatch(files)
    \/ Health
    \/ ModelInfo
    \/ Finish

Spec == Init /\ [][Next]_vars

----------------------------------------------------------------------------
(* The helpers of app/utils.py called on their own: format_predictions on   *)
(* any list of (class_id, class_name, confidence) tuples, sorted or not,    *)
(* and calculate_confidence_distribution on the lists it returns.           *)

RawPrediction(i, name, conf) == [class_id |-> i, class_name |-> name, confidence |-> conf]

LabelAlphabet == {"a", "b", "B", "_", " ", "3"}
Labels == UNION {[1..n -> LabelAlphabet] : n \in 0..MaxLabelLen}

\* confidences around the fourth decimal's halves and the certainty thresholds
ConfSeq ==
    << 0, 49, 50, 51, 150, 250, 12345, 499949, 499950, 500000,
       799949, 799950, 800000, 893457, 999950, 1000000 >>
ConfLevels == Range(ConfSeq)

\* every confidence of the lowest four and of the highest four steps of the
\* fourth decimal
FineConfs == (0..400) \cup (999600..1000000)

\* one prediction under every label and under every fine confidence; every
\* list of up to MaxPreds predictions over ConfLevels; longer lists that walk
\* ConfSeq from any starting point
RawLists ==
    {<<RawPrediction(0, l, 893457)>> : l \in Labels}
    \cup {<<RawPrediction(0, ClassName(0), c)>> : c \in FineConfs}
    \cup UNION {{[i \in 1..n |-> RawPrediction(i - 1, ClassName(i - 1), f[i])] :
                    f \in [1..n -> ConfLevels]} : n \in 0..MaxPreds}
    \cup {[i \in 1..n |-> RawPrediction(i - 1, ClassName(i - 1),
                                         ConfSeq[((k + i) % Len(ConfSeq)) + 1])] :
            n \in 3..(TopK + 2), k \in 0..(Len(ConfSeq) - 1)}

TopKs == {1, 3, TopK}

InitUtils ==
    /\ variant = "Vercel"
    /\ phase = "boot"
    /\ classifier = "Unbound"
    /\ request = NoRequest
    /\ response = NoResponse
    /\ steps = <<>>
    /\ handed = <<>>
    /\ StoreInit
    /\ LoopInit

\* format_predictions(predictions, top_k) on a list and a top_k
Call_format_predictions ==
    /\ request = NoRequest
    /\ \E predictions \in RawLists, top_k \in TopKs :
          /\ request' = [kind |-> "format_predictions", predictions |-> predictions,
                         top_k |-> top_k]
          /\ response' = [status |-> 0,
                          value |-> format_predictions(predictions, top_k)]
    /\ UNCHANGED <<variant, phase, classifier, steps, handed>>
    /\ UNCHANGED <<storeVars, loopVars>>

\* calculate_confidence_distribution on a list format_predictions returned
Call_calculate_confidence_distribution ==
    /\ request = NoRequest
    /\ \E predictions \in RawLists :
          LET formatted == format_predictions(predictions, TopK)
          IN  /\ request' = [kind |-> "calculate_confidence_distribution",
                             predictions |-> formatted]
              /\ response' = [status |-> 0,
                              value |-> calculate_confidence_distribution(formatted)]
    /\ UNCHANGED <<variant, phase, classifier, steps, handed>>
    /\ UNCHANGED <<storeVars, loopVars>>

\* allowed_file(filename) and validate_image(filename) on the same filename
Call_allowed_file ==
    /\ request = NoRequest
    /\ \E filename \in Filenames :
          /\ request' = [kind |-> "allowed_file", filename |-> filename]
          /\ response' = [status |-> 0,
                          value |-> allowed_file(filename),
                          validated |-> validate_image(filename)]
    /\ UNCHANGED <<variant, phase, classifier, steps, handed>>
    /\ UNCHANGED <<storeVars, loopVars>>

NextUtils ==
    \/ Call_format_predictions
    \/ Call_calculate_confidence_distribution
    \/ Call_allowed_file
    \/ Finish

SpecUtils == InitUtils /\ [][NextUtils]_vars

----------------------------------------------------------------------------
(* The classes of the three model.py files used on their own: the path of  *)
(* a decoded image to the tensor the network receives, and the label list  *)
(* of the Render backend.  An image is its mode, its size and the value of *)
(* one pixel (the picture is of one colour, so resizing keeps the value);  *)
(* preprocessed values are in units of 0.001.                              *)

\* the classifier classes of the Vercel app/model.py
ClassifierClasses == {"ImageClassifier", "ResNetClassifier", "EfficientNetClassifier"}

\* keras mobilenet_v2.preprocess_input: x / 127.5 - 1 on every channel
mobilenet_v2_preprocess_input(x) ==
    [i \in 1..Len(x) |-> RoundHalfEven(x[i] * 2000, 255) - 1000]

\* keras resnet50.preprocess_input: RGB to BGR, then the ImageNet channel
\* means are subtracted, no scaling
resnet_preprocess(x) ==
    << x[3] * 1000 - 103939, x[2] * 1000 - 116779, x[1] * 1000 - 123680 >>

\* keras efficientnet.preprocess_input: a pass-through, the network
\* normalises its input itself
eff_preprocess(x) == [i \in 1..Len(x) |-> x[i] * 1000]

\* the preprocessing function a class names for its backbone: the import of
\* the module for ImageClassifier, self.preprocess_fn for the subclasses
declared_preprocess(cls, x) ==
    CASE cls = "ImageClassifier" -> mobilenet_v2_preprocess_input(x)
      [] cls = "ResNetClassifier" -> resnet_preprocess(x)
      [] cls = "EfficientNetClassifier" -> eff_preprocess(x)

\* self.input_shape, the same in the three classes
input_shape == <<224, 224, 3>>

\* ImageClassifier.preprocess_image on an array of shape (H, W, C), the one
\* method the three classes share: tf.image.resize, tf.expand_dims(axis=0),
\* then the preprocess_input the module imports
preprocess_image(cls, image) ==
    LET image_resized ==
            [image EXCEPT !.shape = <<input_shape[1], input_shape[2], image.shape[3]>>]
        image_batched ==
            [image_resized EXCEPT !.shape = <<1>> \o image_resized.shape]
    IN  [image_batched EXCEPT !.pixel = mobilenet_v2_preprocess_input(image_batched.pixel)]

\* np.array(image) and img_to_array(img): (height, width, bands)
np_array(img) ==
    [shape |-> <<img.height, img.width, Channels(img.mode)>>, pixel |-> img.pixel]

\* image.convert('RGB') of a decoded picture: a gray or palette value is
\* spread over the three channels, the alpha channel is dropped
to_RGB(img) ==
    [img EXCEPT !.mode = "RGB",
                !.pixel = IF Len(img.pixel) = 1
                          THEN <<img.pixel[1], img.pixel[1], img.pixel[1]>>
                          ELSE SubSeq(img.pixel, 1, 3)]

\* Vercel: every mode but RGB is converted, np.array, preprocess_image
Vercel_tensor(img) ==
    LET image == IF img.mode # "RGB" THEN to_RGB(img) ELSE img
    IN  preprocess_image("ImageClassifier", np_array(image))

\* Vercel-Render: only RGBA is converted; ModelHandler.preprocess_image
\* resizes to (224, 224), img_to_array, np.expand_dims(axis=0),
\* preprocess_input
VR_tensor(img) ==
    LET image == IF img.mode = "RGBA" THEN to_RGB(img) ELSE img
        resized == [image EXCEPT !.width = 224, !.height = 224]
        img_array == np_array(resized)
    IN  [shape |-> <<1>> \o img_array.shape,
         pixel |-> mobilenet_v2_preprocess_input(img_array.pixel)]

\* transforms.Resize(256): the shorter side becomes 256, the other keeps the
\* aspect ratio
Resize256(img) ==
    IF img.height <= img.width
    THEN [img EXCEPT !.height = 256, !.width = (256 * img.width) \div img.height]
    ELSE [img EXCEPT !.width = 256, !.height = (256 * img.height) \div img.width]

\* transforms.Normalize(mean, std) after ToTensor's division by 255
Normalize(x) ==
    << RoundHalfEven((x[1] * 1000000 - 485 * 255000), 229 * 255),
       RoundHalfEven((x[2] * 1000000 - 456 * 255000), 224 * 255),
       RoundHalfEven((x[3] * 1000000 - 406 * 255000), 225 * 255) >>

\* Render: every mode but RGB is converted; Resize(256), CenterCrop(224),
\* ToTensor (channels, height, width), Normalize, unsqueeze(0)
Render_tensor(img) ==
    LET image == IF img.mode # "RGB" THEN to_RGB(img) ELSE img
        resized == Resize256(image)
        cropped == [resized EXCEPT !.width = 224, !.height = 224]
        input_tensor == <<Channels(cropped.mode), cropped.height, cropped.width>>
    IN  [shape |-> <<1>> \o input_tensor, pixel |-> Normalize(cropped.pixel)]

\* the tensor the running variant hands to its network for a decoded image
Tensor(img) ==
    CASE variant = "Vercel" -> Vercel_tensor(img)
      [] variant = "VercelRender" -> VR_tensor(img)
      [] variant = "Render" -> Render_tensor(img)

\* str.strip: leading and trailing whitespace removed
Whitespace == {" ", "\n", "\t", "\r"}

RECURSIVE lstrip(_)
lstrip(s) == IF s # <<>> /\ Head(s) \in Whitespace THEN lstrip(Tail(s)) ELSE s

RECURSIVE rstrip(_)
rstrip(s) ==
    IF s # <<>> /\ s[Len(s)] \in Whitespace THEN rstrip(SubSeq(s, 1, Len(s) - 1)) ELSE s

strip(s) == rstrip(lstrip(s))

\* str(i) of a non-negative int
DigitChars == <<"0", "1", "2", "3", "4", "5", "6", "7", "8", "9">>

RECURSIVE str_int(_)
str_int(i) ==
    IF i < 10 THEN <<DigitChars[i + 1]>>
    ELSE str_int(i \div 10) \o <<DigitChars[(i % 10) + 1]>>

\* f"class_{i}"
class_placeholder(i) == <<"c", "l", "a", "s", "s", "_">> \o str_int(i)

\* the names the fallback list starts with
SimplifiedLabels ==
    <<
       <<"t", "e", "n", "c", "h">>,
       <<"g", "o", "l", "d", "f", "i", "s", "h">>,
       <<"g", "r", "e", "a", "t", " ", "w", "h", "i", "t", "e", " ", "s", "h", "a", "r", "k">>,
       <<"t", "i", "g", "e", "r", " ", "s", "h", "a", "r", "k">>,
       <<"h", "a", "m", "m", "e", "r", "h", "e", "a", "d">>,
       <<"e", "l", "e", "c", "t", "r", "i", "c", " ", "r", "a", "y">>,
       <<"s", "t", "i", "n", "g", "r", "a", "y">>,
       <<"c", "o", "c", "k">>,
       <<"h", "e", "n">>,
       <<"o", "s", "t", "r", "i", "c", "h">>,
       <<"b", "r", "a", "m", "b", "l", "i", "n", "g">>,
       <<"g", "o", "l", "d", "f", "i", "n", "c", "h">>,
       <<"h", "o", "u", "s", "e", " ", "f", "i", "n", "c", "h">>,
       <<"j", "u", "n", "c", "o">>,
       <<"i", "n", "d", "i", "g", "o", " ", "b", "u", "n", "t", "i", "n", "g">>,
       <<"r", "o", "b", "i", "n">>,
       <<"b", "u", "l", "b", "u", "l">>,
       <<"j", "a", "y">>,
       <<"m", "a", "g", "p", "i", "e">>,
       <<"c", "h", "i", "c", "k", "a", "d", "e", "e">>,
       <<"w", "a", "t", "e", "r", " ", "o", "u", "z", "e", "l">>,
       <<"k", "i", "t", "e">>,
       <<"b", "a", "l", "d", " ", "e", "a", "g", "l", "e">>,
       <<"v", "u", "l", "t", "u", "r", "e">>,
       <<"g", "r", "e", "a", "t", " ", "g", "r", "e", "y", " ", "o", "w", "l">>,
       <<"E", "u", "r", "o", "p", "e", "a", "n", " ", "f", "i", "r", "e", " ", "s", "a", "l", "a", "m", "a", "n", "d", "e", "r">>,
       <<"c", "o", "m", "m", "o", "n", " ", "n", "e", "w", "t">>,
       <<"e", "f", "t">>,
       <<"s", "p", "o", "t", "t", "e", "d", " ", "s", "a", "l", "a", "m", "a", "n", "d", "e", "r">>,
       <<"a", "x", "o", "l", "o", "t", "l">>,
       <<"b", "u", "l", "l", "f", "r", "o", "g">>,
       <<"t", "r", "e", "e", " ", "f", "r", "o", "g">>
    >>

\* imagenet_classes.txt is not in the working directory
Missing == <<"<missing>">>

\* _load_imagenet_labels: the stripped lines of imagenet_classes.txt, or,
\* when the file is missing, the simplified names followed by
\* [f"class_{i}" for i in range(33, 1000)]
load_imagenet_labels(file) ==
    IF file # Missing
    THEN [k \in 1..Len(file) |-> strip(file[k])]
    ELSE SimplifiedLabels \o [k \in 1..(1000 - 33) |-> class_placeholder(33 + k - 1)]

\* the label predict gives a class index: self.labels[class_idx] inside the
\* list, f"Class {class_idx}" beyond its end
Render_label(labels, class_idx) ==
    IF class_idx < Len(labels) THEN labels[class_idx + 1]
    ELSE <<"C", "l", "a", "s", "s", " ">> \o str_int(class_idx)

\* a label file of n lines, line k naming class k - 1
LabelFile(n) == [k \in 1..n |-> <<"n">> \o str_int(k - 1) \o <<"\n">>]

\* no file, a complete file, files that are short, long or empty, and a file
\* with blank space around its names
LabelFiles ==
    { Missing, LabelFile(1000), LabelFile(999), LabelFile(1001), <<>>,
      << <<" ", "a", " ", "b", "\t", "\r", "\n">>, <<"\n">> >> }

\* sides around the input size and the resize threshold, and the extremes
Sides == {1, 2, 223, 224, 256, 500}

\* one colour per picture
Pixels == { <<0, 0, 0>>, <<255, 255, 255>>, <<51, 102, 204>>, <<128, 128, 128>> }

Arrays == {[shape |-> <<h, w, 3>>, pixel |-> p] : h \in Sides, w \in Sides, p \in Pixels}

\* the value of the picture's pixels, one number per band of its mode
PixelOf(mode) == SubSeq(<<51, 102, 204, 255>>, 1, Channels(mode))

Images ==
    {[mode |-> m, width |-> w, height |-> h, pixel |-> PixelOf(m)] :
        m \in Modes, w \in Sides, h \in Sides}

InitModel ==
    /\ variant \in Variants
    /\ phase = "boot"
    /\ classifier = "Unbound"
    /\ request = NoRequest
    /\ response = NoResponse
    /\ steps = <<>>
    /\ handed = <<>>
    /\ StoreInit
    /\ LoopInit

\* preprocess_image of an instance of one of the three classes of the
\* Vercel app/model.py
Call_preprocess_image ==
    /\ request = NoRequest
    /\ variant = "Vercel"
    /\ \E cls \in ClassifierClasses, image \in Arrays :
          /\ request' = [kind |-> "preprocess_image", cls |-> cls, image |-> image]
          /\ response' = [status |-> 0, value |-> preprocess_image(cls, image)]
    /\ UNCHANGED <<variant, phase, classifier, steps, handed>>
    /\ UNCHANGED <<storeVars, loopVars>>

\* a decoded image on its way to the network of the running variant
Call_predict ==
    /\ request = NoRequest
    /\ \E img \in Images :
          /\ request' = [kind |-> "tensor", img |-> img]
          /\ response' = [status |-> 0, value |-> Tensor(img)]
    /\ UNCHANGED <<variant, phase, classifier, steps, handed>>
    /\ UNCHANGED <<storeVars, loopVars>>

\* ImageClassifier.__init__ of the Render backend loading its labels
Call_load_imagenet_labels ==
    /\ request = NoRequest
    /\ variant = "Render"
    /\ \E file \in LabelFiles :
          /\ request' = [kind |-> "load_imagenet_labels", file |-> file]
          /\ response' = [status |-> 0, value |-> load_imagenet_labels(file)]
    /\ UNCHANGED <<variant, phase, classifier, steps, handed>>
    /\ UNCHANGED <<storeVars, loopVars>>

NextModel ==
    \/ Call_preprocess_image
    \/ Call_predict
    \/ Call_load_imagenet_labels
    \/ Finish

SpecModel == InitModel /\ [][NextModel]_vars

----------------------------------------------------------------------------
(* Azure backend: the todo routes of app/routes.py over the list todos_db  *)
(* and the counter next_id.  Every handler is an async def without an      *)
(* await, so it runs from its first statement to its return without        *)
(* another handler in between: one action per handler.                     *)

\* the most todos the process creates
MaxTodos == 2

\* what datetime.utcnow() can return
Times == {0, 1}

TITLE_a == <<"a">>
TITLE_b == <<"b">>
DESC_d == <<"d">>

\* TodoCreate bodies: title, optional description, completed
TodoCreates ==
    { [title |-> TITLE_a, description |-> None, completed |-> FALSE],
      [title |-> TITLE_b, description |-> DESC_d, completed |-> TRUE] }

\* TodoUpdate bodies: todo_update.model_dump(exclude_unset=True), the fields
\* the request sets: none, the title, completed, all three, or a null
\* description
UpdateFields == {"title", "description", "completed"}

TodoUpdates ==
    { [field \in S |-> [title |-> TITLE_b, description |-> DESC_d,
                        completed |-> TRUE][field]] :
        S \in {{}, {"title"}, {"completed"}, UpdateFields} }
    \cup { [field \in {"description"} |-> None] }

\* the ids a request can name: issued ones and ones never issued
TodoIds == 1..(MaxTodos + 1)

\* the position of the first todo with this id, 0 when the loop ends
\* without finding one
find_todo(db, todo_id) ==
    IF \E k \in 1..Len(db) : db[k].id = todo_id
    THEN CHOOSE k \in 1..Len(db) :
            /\ db[k].id = todo_id
            /\ \A j \in 1..(k - 1) : db[j].id # todo_id
    ELSE 0

NotFound(db, nid) == [status |-> 404, value |-> None, todos_db |-> db, next_id |-> nid]

\* get_todos: the whole list
get_todos(db, nid) == [status |-> 200, value |-> db, todos_db |-> db, next_id |-> nid]

\* a create_todo that numbers the new todo by the length of the list
create_todo_by_length(db, nid, todo, t1, t2) ==
    LET new_todo == [id |-> Len(db) + 1,
                     title |-> todo.title,
                     description |-> todo.description,
                     completed |-> todo.completed,
                     created_at |-> t1,
                     updated_at |-> t2]
    IN  [status |-> 201, value |-> new_todo,
         todos_db |-> Append(db, new_todo), next_id |-> nid + 1]

\* create_todo: a Todo with id next_id is appended and next_id is incremented
create_todo(db, nid, todo, t1, t2) ==
    LET new_todo == [id |-> nid,
                     title |-> todo.title,
                     description |-> todo.description,
                     completed |-> todo.completed,
                     created_at |-> t1,
                     updated_at |-> t2]
    IN  [status |-> 201, value |-> new_todo,
         todos_db |-> Append(db, new_todo), next_id |-> nid + 1]

\* get_todo: the todo with this id, or 404
get_todo(db, nid, todo_id) ==
    LET k == find_todo(db, todo_id)
    IN  IF k = 0 THEN NotFound(db, nid)
        ELSE [status |-> 200, value |-> db[k], todos_db |-> db, next_id |-> nid]

\* an update_todo that writes every field of TodoUpdate, the unset ones with
\* their defaults
update_todo_all_fields(db, nid, todo_id, update_data, t) ==
    LET k == find_todo(db, todo_id)
    IN  IF k = 0 THEN NotFound(db, nid)
        ELSE LET todo == [field \in DOMAIN db[k] |->
                            IF field \in DOMAIN update_data THEN update_data[field]
                            ELSE IF field = "updated_at" THEN t
                            ELSE IF field = "description" THEN None
                            ELSE db[k][field]]
             IN  [status |-> 200, value |-> todo,
                  todos_db |-> [db EXCEPT ![k] = todo], next_id |-> nid]

\* update_todo: setattr for every field the request sets, then updated_at
update_todo(db, nid, todo_id, update_data, t) ==
    LET k == find_todo(db, todo_id)
    IN  IF k = 0 THEN NotFound(db, nid)
        ELSE LET todo == [field \in DOMAIN db[k] |->
                            IF field \in DOMAIN update_data THEN update_data[field]
                            ELSE IF field = "updated_at" THEN t
                            ELSE db[k][field]]
             IN  [status |-> 200, value |-> todo,
                  todos_db |-> [db EXCEPT ![k] = todo], next_id |-> nid]

\* todos_db.pop(index)
pop(db, index) == SubSeq(db, 1, index - 1) \o SubSeq(db, index + 1, Len(db))

\* a delete_todo that pops the last todo, whichever id was found
delete_todo_last(db, nid, todo_id) ==
    LET k == find_todo(db, todo_id)
    IN  IF k = 0 THEN NotFound(db, nid)
        ELSE [status |-> 204, value |-> None, todos_db |-> pop(db, Len(db)),
              next_id |-> nid]

\* delete_todo: the todo with this id is popped, or 404
delete_todo(db, nid, todo_id) ==
    LET k == find_todo(db, todo_id)
    IN  IF k = 0 THEN NotFound(db, nid)
        ELSE [status |-> 204, value |-> None, todos_db |-> pop(db, k),
              next_id |-> nid]

InitTodo ==
    /\ variant = "Azure"
    /\ phase = "serving"
    /\ classifier = "Unbound"
    /\ request = NoRequest
    /\ response = NoResponse
    /\ steps = <<>>
    /\ handed = <<>>
    /\ StoreInit
    /\ LoopInit

\* what every todo handler leaves alone
TodoFrame == UNCHANGED <<variant, phase, classifier, steps, handed, loopVars>>

\* POST /api/todos
CreateTodo ==
    /\ request = NoRequest
    /\ next_id <= MaxTodos
    /\ \E todo \in TodoCreates, t1 \in Times, t2 \in Times :
          /\ t1 <= t2
          /\ LET r == create_todo(todos_db, next_id, todo, t1, t2)
             IN  /\ request' = [kind |-> "create_todo", body |-> todo]
                 /\ response' = [status |-> r.status, value |-> r.value]
                 /\ todos_db' = r.todos_db
                 /\ next_id' = r.next_id
                 /\ issued' = issued \cup {r.value.id}
    /\ TodoFrame

\* GET /api/todos
GetTodos ==
    /\ request = NoRequest
    /\ LET r == get_todos(todos_db, next_id)
       IN  /\ request' = [kind |-> "get_todos"]
           /\ response' = [status |-> r.status, value |-> r.value]
           /\ todos_db' = r.todos_db
           /\ next_id' = r.next_id
    /\ UNCHANGED issued
    /\ TodoFrame

\* GET /api/todos/{todo_id}
GetTodo ==
    /\ request = NoRequest
    /\ \E todo_id \in TodoIds :
          LET r == get_todo(todos_db, next_id, todo_id)
          IN  /\ request' = [kind |-> "get_todo", todo_id |-> todo_id]
              /\ response' = [status |-> r.status, value |-> r.value]
              /\ todos_db' = r.todos_db
              /\ next_id' = r.next_id
    /\ UNCHANGED issued
    /\ TodoFrame

\* PUT /api/todos/{todo_id}
UpdateTodo ==
    /\ request = NoRequest
    /\ \E todo_id \in TodoIds, todo_update \in TodoUpdates, t \in Times :
          LET r == update_todo(todos_db, next_id, todo_id, todo_update, t)
          IN  /\ request' = [kind |-> "update_todo", todo_id |-> todo_id,
                             body |-> todo_update]
              /\ response' = [status |-> r.status, value |-> r.value]
              /\ todos_db' = r.todos_db
              /\ next_id' = r.next_id
    /\ UNCHANGED issued
    /\ TodoFrame

\* DELETE /api/todos/{todo_id}
DeleteTodo ==
    /\ request = NoRequest
    /\ \E todo_id \in TodoIds :
          LET r == delete_todo(todos_db, next_id, todo_id)
          IN  /\ request' = [kind |-> "delete_todo", todo_id |-> todo_id]
              /\ response' = [status |-> r.status, value |-> r.value]
              /\ todos_db' = r.todos_db
              /\ next_id' = r.next_id
    /\ UNCHANGED issued
    /\ TodoFrame

NextTodo ==
    \/ CreateTodo
    \/ GetTodos
    \/ GetTodo
    \/ UpdateTodo
    \/ DeleteTodo
    \/ Finish

SpecTodo == InitTodo /\ [][NextTodo]_vars

----------------------------------------------------------------------------
(* The handlers on the event loop.  Every handler is an async def, so it   *)
(* is a coroutine the one event-loop thread runs: from its start, or from  *)
(* the await it was suspended at, to its next await or its return.  The    *)
(* only await of a predict handler is `await file.read()`; Image.open,     *)
(* the conversion and classifier.predict / model_handler.predict are plain *)
(* calls in the coroutine.  A task is a request with the position of its   *)
(* coroutine; `running` is the task whose code the thread is executing.    *)
(* A segment that takes no real time is one step; the segment with the     *)
(* forward pass has a begin and an end.                                    *)

\* the most requests in flight
MaxTasks == 3

Task(kind, at) == [kind |-> kind, at |-> at]

TaskIds == 1..Len(tasks)

InitLoop ==
    /\ variant \in Variants
    /\ phase = "serving"
    /\ classifier = "Loaded"
    /\ request = NoRequest
    /\ response = NoResponse
    /\ steps = <<>>
    /\ handed = <<>>
    /\ StoreInit
    /\ tasks = <<>>
    /\ running = 0

\* what the event loop leaves alone
LoopFrame ==
    UNCHANGED <<variant, phase, classifier, request, response, steps, handed, storeVars>>

\* a request arrives and its handler coroutine is scheduled
Accept ==
    /\ Len(tasks) < MaxTasks
    /\ \E kind \in {"predict", "health"} : tasks' = Append(tasks, Task(kind, "ready"))
    /\ UNCHANGED running
    /\ LoopFrame

\* health_check: no await, runs to its return once the thread takes it
RunHealth ==
    /\ running = 0
    /\ \E t \in TaskIds :
          /\ tasks[t] = Task("health", "ready")
          /\ tasks' = [tasks EXCEPT ![t].at = "done"]
    /\ UNCHANGED running
    /\ LoopFrame

\* predict up to `contents = await file.read()`: the checks, then the
\* coroutine is suspended while a spooled upload is read from disk
RunToRead ==
    /\ running = 0
    /\ \E t \in TaskIds :
          /\ tasks[t] = Task("predict", "ready")
          /\ tasks' = [tasks EXCEPT ![t].at = "read"]
    /\ UNCHANGED running
    /\ LoopFrame

\* the read of a suspended predict completes: the coroutine can be resumed
ReadDone ==
    /\ \E t \in TaskIds :
          /\ tasks[t] = Task("predict", "read")
          /\ tasks' = [tasks EXCEPT ![t].at = "resume"]
    /\ UNCHANGED running
    /\ LoopFrame

\* the thread resumes predict after the read, or runs it from the start
\* when the upload is held in memory and read() returns at once: decoding,
\* then the forward pass, called in the coroutine itself
BeginForward ==
    /\ running = 0
    /\ \E t \in TaskIds :
          /\ tasks[t] \in {Task("predict", "resume"), Task("predict", "ready")}
          /\ tasks' = [tasks EXCEPT ![t].at = "forward"]
          /\ running' = t
    /\ LoopFrame

\* the forward pass returns; predict formats its result and returns, which
\* gives the thread back to the event loop
EndForward ==
    /\ running # 0
    /\ tasks[running].at = "forward"
    /\ tasks' = [tasks EXCEPT ![running].at = "done"]
    /\ running' = 0
    /\ LoopFrame

NextLoop ==
    \/ Accept
    \/ RunHealth
    \/ RunToRead
    \/ ReadDone
    \/ BeginForward
    \/ EndForward

SpecLoop == InitLoop /\ [][NextLoop]_vars

----------------------------------------------------------------------------
(* Properties.                                                             *)

\* the operations the handler performed, whatever the item
Ops == {e[2] : e \in Range(steps)}

\* the declared content type is in the image/* family
IsImageType(ct) == ct # None /\ startswith(ct, IMAGE_PREFIX)

IsPredict == request.kind = "predict"
IsBatch == request.kind = "batch"

\* C1: a batch of more than 10 files is answered 400 with no per-item result
\* and without any file having been read, decoded or handed to the model; a
\* batch of 1..10 files is never answered 400.
C1_BatchSizeCheckedFirst ==
    IsBatch =>
        /\ Len(request.files) > 10 =>
              /\ response.status = 400
              /\ response.results = <<>>
              /\ steps = <<>>
              /\ handed = <<>>
        /\ Len(request.files) \in 1..10 => response.status # 400

C1_Witness ==
    /\ IsBatch
    /\ Len(request.files) = 11
    /\ response.status = 400

\* an item of a batch fails at some stage: content-type validation, the read,
\* decoding, preprocessing, or inference (which needs a loaded model and a
\* 3-channel image; only RGBA is converted before the model is called)
ItemFails(file) ==
    \/ ~IsImageType(file.content_type)
    \/ file.fault # "none"
    \/ file.payload.kind # "image"
    \/ file.payload.mode \notin {"RGB", "RGBA"}
    \/ classifier # "Loaded"

\* C2: in a batch of at most 10 files the response is 200 and every position
\* has a result: a failed item's result has success = false, an error message
\* and no predictions, and every item whose content type is accepted was read,
\* whatever happened to the items before it.
C2_FailuresContainedPerItem ==
    (IsBatch /\ Len(request.files) <= 10) =>
        /\ response.status = 200
        /\ \A i \in 1..Len(request.files) :
              /\ i <= Len(response.results)
              /\ ItemFails(request.files[i]) <=> ~response.results[i].success
              /\ ~response.results[i].success =>
                    /\ response.results[i].error # ""
                    /\ ~response.results[i].has_predictions
              /\ IsImageType(request.files[i].content_type) =>
                    <<i, "read">> \in Range(steps)

\* a failed item followed by a successful one
C2_Witness ==
    /\ IsBatch
    /\ \E i, j \in 1..Len(response.results) :
          /\ i < j
          /\ ~response.results[i].success
          /\ response.results[j].success

\* C3: an accepted batch's results list has one entry per submitted file, in
\* submission order, and total_images is the number of submitted files.
C3_ResultsInSubmissionOrder ==
    (IsBatch /\ response.status = 200) =>
        /\ Len(response.results) = Len(request.files)
        /\ response.total_images = Len(request.files)
        /\ \A i \in 1..Len(request.files) :
              response.results[i].filename = request.files[i].filename

\* a batch of ten with successes and failures
C3_Witness ==
    /\ IsBatch
    /\ response.status = 200
    /\ Len(request.files) = 10
    /\ \E i, j \in 1..10 :
          response.results[i].success /\ ~response.results[j].success

\* C4: POST /predict while the model is not loaded answers 503, in every
\* variant, and neither decodes the upload nor runs inference (stated for an
\* upload that is otherwise in order: image content type, readable RGB image).
C4_NotLoadedAnswers503 ==
    (IsPredict /\ classifier # "Loaded"
        /\ IsImageType(request.file.content_type)
        /\ request.file.payload = GoodPayload
        /\ request.file.fault = "none") =>
        /\ response.status = 503
        /\ "open" \notin Ops
        /\ "forward" \notin Ops

\* C5: with the model loaded, an upload whose declared content type is not in
\* the image/* family, or is absent, is answered 400 whatever its filename and
\* payload.
C5_NonImageTypeAnswers400 ==
    (IsPredict /\ classifier = "Loaded" /\ ~IsImageType(request.file.content_type)) =>
        response.status = 400

\* the extensions the specification allows, without the dot
AllowedNames ==
    { <<"j", "p", "g">>, <<"j", "p", "e", "g">>, <<"p", "n", "g">>,
      <<"g", "i", "f">>, <<"b", "m", "p">>, <<"w", "e", "b", "p">> }

\* the filename ends in a dot and an allowed extension, in any letter case, and
\* the dot follows a character of the last path component that is not a dot:
\* a name such as ".png" is a dot-file without extension
HasAllowedExtension(f) ==
    /\ f # None
    /\ \E k \in 1..Len(f) :
          /\ f[k] = "."
          /\ lower(SubSeq(f, k + 1, Len(f))) \in AllowedNames
          /\ \E j \in 1..(k - 1) :
                /\ f[j] # "."
                /\ \A m \in j..(k - 1) : f[m] # "/"

\* C6: validate_image accepts a filename exactly when it is non-empty and
\* its final extension, compared case-insensitively, is one of jpg, jpeg, png,
\* gif, bmp, webp; POST /predict of the Vercel backend answers 400 to every
\* other filename without reading the upload, and reads the upload of every
\* accepted one.
C6_ExtensionAllowList ==
    (IsPredict /\ variant = "Vercel" /\ classifier = "Loaded"
        /\ IsImageType(request.file.content_type)) =>
        LET f == request.file.filename
        IN  /\ (validate_image(f).exc = "") <=> HasAllowedExtension(f)
            /\ HasAllowedExtension(f) => <<0, "read">> \in Range(steps)
            /\ ~HasAllowedExtension(f) =>
                  /\ response.status = 400
                  /\ <<0, "read">> \notin Range(steps)

\* an upper-case extension accepted and classified
C6_Witness ==
    /\ IsPredict
    /\ variant = "Vercel"
    /\ request.file.filename = <<"a", ".", "J", "P", "G">>
    /\ response.status = 200

\* C7: an upload without a filename is rejected on every path: POST /predict
\* answers 400, and a batch item without a filename gets success = false
\* (stated for uploads that are otherwise in order, with the model loaded).
C7_NoFilenameRejected ==
    /\ (IsPredict /\ classifier = "Loaded" /\ ~Truthy(request.file.filename)
          /\ IsImageType(request.file.content_type)
          /\ request.file.payload = GoodPayload
          /\ request.file.fault = "none") =>
          response.status = 400
    /\ (IsBatch /\ response.status = 200) =>
          \A i \in 1..Len(request.files) :
              ~Truthy(request.files[i].filename) => ~response.results[i].success

\* the upload passes the variant's validation
PassesValidation(file) ==
    /\ IsImageType(file.content_type)
    /\ variant = "Vercel" => HasAllowedExtension(file.filename)

\* C8: an upload that passes validation but whose bytes are not a decodable
\* image is answered 400 in every variant.
C8_DecodeFailureAnswers400 ==
    (IsPredict /\ classifier = "Loaded" /\ PassesValidation(request.file)
        /\ request.file.fault = "none" /\ request.file.payload.kind = "garbage") =>
        response.status = 400

\* C9: for a validated and decoded upload, a failure of preprocessing or of
\* the forward pass is answered 500, never 400 and never 200 with predictions.
C9_PipelineFailureAnswers500 ==
    (IsPredict /\ classifier = "Loaded" /\ PassesValidation(request.file)
        /\ request.file.payload.kind = "image"
        /\ request.file.fault \in {"preprocess", "inference"}) =>
        /\ response.status = 500
        /\ ~response.has_predictions

\* the forward pass of the Vercel backend fails on a decoded upload
C9_Witness ==
    /\ IsPredict
    /\ variant = "Vercel"
    /\ request.file.fault = "inference"
    /\ <<0, "forward">> \in Range(steps)
    /\ response.status = 500

\* C10: every image handed to the model has exactly 3 channels, on every
\* path of every variant, and a valid grayscale upload is classified.
C10_ThreeChannelsHanded ==
    classifier = "Loaded" =>
        /\ \A e \in Range(handed) : e[2] = 3
        /\ (IsPredict /\ PassesValidation(request.file)
              /\ request.file.payload = [kind |-> "image", mode |-> "L"]
              /\ request.file.fault = "none") =>
              response.status = 200

C12_OrderedWithIndexTieBreak ==
    (IsPredict /\ response.status = 200 /\ request.file.ties = "asc") =>
        \A i, j \in 1..Len(response.predictions) :
            i < j =>
                /\ response.predictions[i].confidence >= response.predictions[j].confidence
                /\ response.predictions[i].confidence = response.predictions[j].confidence
                      => response.predictions[i].class_id < response.predictions[j].class_id

\* C13: the percentage of a formatted prediction, in units of 0.01 %, is its
\* confidence field times 100 at two decimals.
C13_PercentMatchesConfidence ==
    request.kind = "format_predictions" =>
        \A i \in 1..Len(response.value) :
            response.value[i].confidence_percent * 100 = response.value[i].confidence

\* a confidence on a half of the fourth decimal: 0.00015 is returned as
\* 0.0002 and 0.02 %
C13_Witness ==
    /\ request.kind = "format_predictions"
    /\ \E i \in 1..Len(response.value) :
          /\ request.predictions[i].confidence = 150
          /\ response.value[i].confidence = 200
          /\ response.value[i].confidence_percent = 2

\* C14: every confidence a prediction endpoint returns is a multiple of
\* 0.0001, in every variant, on the single and on the batch path.
C14_ConfidencesRoundedTo4 ==
    /\ (IsPredict /\ response.status = 200) =>
          \A i \in 1..Len(response.predictions) :
              response.predictions[i].confidence % 100 = 0
    /\ (IsBatch /\ response.status = 200) =>
          \A k \in 1..Len(response.results) :
              \A i \in 1..Len(response.results[k].predictions) :
                  response.results[k].predictions[i].confidence % 100 = 0

\* C15: the label cleanup is idempotent: cleaning a cleaned label again
\* returns it unchanged, for every label over lower-case and upper-case
\* letters, underscore, space and a digit.
C15_LabelCleanupIdempotent ==
    request.kind = "format_predictions" =>
        \A i \in 1..Len(response.value) :
            clean_name(response.value[i].class) = response.value[i].class

\* the label a_Bb has been cleaned to "A Bb"
C15_Witness ==
    /\ request.kind = "format_predictions"
    /\ Len(request.predictions) = 1
    /\ request.predictions[1].class_name = <<"a", "_", "B", "b">>
    /\ response.value[1].class = <<"A", " ", "B", "b">>

C17_ModelLoadedOnceAtStart ==
    [][/\ classifier' # classifier => phase = "boot"
       /\ classifier = "Loaded" => classifier' = "Loaded"]_vars

\* the model-information endpoint answered by a process whose model is loaded
C17_Witness ==
    /\ variant = "VercelRender"
    /\ request.kind = "model_info"
    /\ classifier = "Loaded"
    /\ response.loaded

\* C18: GET /health answers 200 in every state of the service, and its
\* model_loaded flag is true exactly when the model is loaded.
C18_HealthAlways200 ==
    request.kind = "health" =>
        /\ response.status = 200
        /\ response.model_loaded <=> classifier = "Loaded"

\* C19 as stated: any failure raised while handling a request is answered
\* 500 (here: a failed read, an undecodable payload or a failed pipeline stage
\* of a validated upload).
C19_AnyFailureAnswers500 ==
    (IsPredict /\ classifier = "Loaded" /\ PassesValidation(request.file)
        /\ (request.file.fault # "none" \/ request.file.payload.kind # "image")) =>
        response.status = 500

\* C19, amended: every request is answered; a failure that the handler does
\* not itself answer with 400 or 503 is answered 500, including the ones no
\* except clause of the handler anticipates (the absent content type, the
\* unbound classifier of the health check); and after every response the
\* process takes the next request.
C19_UncaughtFailureAnswers500 ==
    /\ request # NoRequest => response.status \in {200, 400, 500, 503}
    /\ (IsPredict /\ classifier = "Loaded" /\ request.file.content_type = None) =>
          response.status = 500
    /\ (request.kind = "health" /\ classifier = "Unbound") => response.status = 500
    /\ (IsPredict /\ variant # "Vercel" /\ classifier = "Loaded"
          /\ IsImageType(request.file.content_type)
          /\ (request.file.fault # "none" \/ request.file.payload.kind # "image")) =>
          response.status = 500
    /\ (IsPredict /\ variant = "Vercel" /\ classifier = "Loaded"
          /\ PassesValidation(request.file)
          /\ request.file.payload.kind = "image"
          /\ request.file.fault \in {"preprocess", "inference"}) =>
          response.status = 500
    /\ request # NoRequest => ENABLED Finish
    /\ (phase = "serving" /\ request = NoRequest) => ENABLED Health

\* the Vercel backend's global handler has answered the AttributeError of an
\* upload without content type
C19_Witness ==
    /\ IsPredict
    /\ variant = "Vercel"
    /\ classifier = "Loaded"
    /\ request.file.content_type = None
    /\ response.status = 500
    /\ response.detail = "An unexpected error occurred"

\* C20: outside debug mode the body of a 500 caused by a preprocessing or
\* inference failure does not carry the text of the internal exception.
C20_NoExceptionTextIn500 ==
    (IsPredict /\ ~app_debug /\ classifier = "Loaded"
        /\ PassesValidation(request.file)
        /\ request.file.payload.kind = "image"
        /\ request.file.fault \in {"preprocess", "inference"}
        /\ response.status = 500) =>
        response.exc_text # request.file.errtext

\* C30: allowed_file(f) is True exactly when validate_image(f) returns True,
\* and False exactly when validate_image(f) raises ValueError.
C30_AllowedFileAgreesWithValidate ==
    request.kind = "allowed_file" =>
        /\ response.value \in BOOLEAN
        /\ response.validated.exc \in {"", "ValueError"}
        /\ (response.value = TRUE) <=> (response.validated.exc = "")
        /\ (response.value = FALSE) <=> (response.validated.exc = "ValueError")

\* an upper-case allowed extension accepted by both, while a dot file named
\* like an extension is refused by both
C30_Witness ==
    /\ request.kind = "allowed_file"
    /\ request.filename = <<"a", ".", "J", "P", "G">>
    /\ response.value = TRUE
    /\ response.validated.exc = ""
    /\ ~allowed_file(<<".", "p", "n", "g">>)
    /\ validate_image(<<".", "p", "n", "g">>).exc = "ValueError"

\* the operations that touch the upload's bytes or the model
ExpensiveOps ==
    {"read", "open", "convert", "np.array", "preprocess", "forward", "predict",
     "decode_predictions", "topk", "format_predictions"}

\* the positions of an operation in the handler's trace
OpIndices(op) == {k \in 1..Len(steps) : steps[k][2] = op}

\* the upload is turned away by the content-type check or, in the Vercel
\* backend, by the filename check
RejectedByValidation(file) ==
    \/ file.content_type = None
    \/ ~startswith(file.content_type, IMAGE_PREFIX)
    \/ variant = "Vercel" /\ validate_image(file.filename).exc # ""

\* C27: on POST /predict validation comes before the expensive work: an
\* upload the content-type or filename check rejects is never read, decoded,
\* preprocessed or passed to the model; the image is decoded before the
\* forward pass; the forward pass runs at most once per request.
C27_ValidationPrecedesWork ==
    IsPredict =>
        /\ RejectedByValidation(request.file) =>
                /\ Ops \cap ExpensiveOps = {}
                /\ handed = <<>>
                /\ response.status # 200
        /\ \A k \in OpIndices("forward") :
                \E r \in OpIndices("read"), o \in OpIndices("open") : r < o /\ o < k
        /\ Cardinality(OpIndices("forward")) <= 1

\* an image/png upload named a.pdf turned away by the filename check of the
\* Vercel backend with nothing but the check performed
C27_Witness ==
    /\ IsPredict
    /\ variant = "Vercel"
    /\ classifier = "Loaded"
    /\ request.file.content_type = CT_png
    /\ request.file.filename = <<"a", ".", "p", "d", "f">>
    /\ response.status = 400
    /\ Ops = {"validate_image"}

\* what POST /predict answers for the upload at position i of the batch
SingleAnswer(i) == predict_image(classifier, request.files[i]).response

\* C28: every item of an accepted batch is treated as a single upload of the
\* same file: its result has success = true with the predictions POST
\* /predict gives with 200, and success = false exactly when POST /predict
\* answers an error; the result depends on the file only, not on its
\* position or on the other items.
C28_BatchItemMatchesSingle ==
    (IsBatch /\ response.status = 200) =>
        /\ Len(response.results) = Len(request.files)
        /\ \A i \in 1..Len(request.files) :
              LET r == response.results[i]
              IN  /\ r.success <=> SingleAnswer(i).status = 200
                  /\ ~r.success <=> SingleAnswer(i).status \in {400, 500}
                  /\ r.success =>
                        /\ r.has_predictions
                        /\ SingleAnswer(i).has_predictions
                        /\ r.predictions = SingleAnswer(i).predictions
                  /\ ~r.success => ~r.has_predictions
        /\ \A i, j \in 1..Len(request.files) :
              request.files[i] = request.files[j] =>
                  response.results[i] = response.results[j]

\* a batch whose first item fails the way POST /predict answers 500 and
\* whose second item succeeds with the five predictions POST /predict gives
C28_Witness ==
    /\ IsBatch
    /\ response.status = 200
    /\ classifier = "Loaded"
    /\ Len(request.files) = 2
    /\ ~response.results[1].success
    /\ SingleAnswer(1).status = 500
    /\ response.results[2].success
    /\ Len(response.results[2].predictions) = TopK
    /\ SingleAnswer(2).status = 200
    /\ response.results[2].predictions = SingleAnswer(2).predictions

\* C22: for each of the three classifier classes the normalisation
\* preprocess_image applies is the one the class declares for its backbone.
C22_DeclaredSchemeApplied ==
    request.kind = "preprocess_image" =>
        response.value.pixel = declared_preprocess(request.cls, request.image.pixel)

\* C23: for a decoded image of any width and height the tensor handed to
\* the network has shape (1, 224, 224, 3), batch first and channels last, in
\* every variant.
C23_TensorShape ==
    request.kind = "tensor" => response.value.shape = <<1, 224, 224, 3>>

\* C24: _load_imagenet_labels returns exactly 1000 labels in class-index
\* order, with or without imagenet_classes.txt: every class index 0..999
\* has a label at that index, and each fallback placeholder class_i sits at
\* index i.
C24_ThousandLabels ==
    request.kind = "load_imagenet_labels" =>
        /\ Len(response.value) = 1000
        /\ \A i \in 0..999 : Render_label(response.value, i) = response.value[i + 1]
        /\ request.file = Missing =>
              \A i \in 32..999 : response.value[i + 1] = class_placeholder(i)

\* the ids of the todos in a list
Ids(db) == {db[k].id : k \in 1..Len(db)}

C29_IdsUniqueIncreasingNeverReused ==
    /\ [](/\ \A i, j \in 1..Len(todos_db) : i < j => todos_db[i].id < todos_db[j].id
          /\ Ids(todos_db) \subseteq issued
          /\ \A id \in issued : id < next_id)
    /\ [][ request'.kind = "create_todo" =>
              /\ response'.value.id \notin issued
              /\ response'.value.id = todos_db'[Len(todos_db')].id
              /\ next_id' > next_id ]_vars

\* a todo created after the first one was deleted gets a new id
C29_Witness ==
    /\ request.kind = "create_todo"
    /\ response.status = 201
    /\ response.value.id = 2
    /\ Ids(todos_db) = {2}
    /\ issued = {1, 2}
    /\ next_id = 3

\* C21: while the forward pass of one request runs, the event loop is not
\* occupied by it: a GET /health that waits can be served, and another
\* upload can get to its read, before the forward pass has finished.
C21_LoopFreeDuringForward ==
    \A t \in TaskIds :
        tasks[t].at = "forward" =>
            /\ running # t
            /\ (\E u \in TaskIds : tasks[u] = Task("health", "ready")) => ENABLED RunHealth
            /\ (\E u \in TaskIds : tasks[u] = Task("predict", "ready")) => ENABLED RunToRead

====
